---- MODULE Spec2Model ----
(***************************************************************************)
(* Model of the Stripe "invoice.paid" webhook handler invoicePaid          *)
(* (apps/web/app/api/stripe/integration/webhook/invoice-paid.ts).          *)
(*                                                                         *)
(* Every delivery of an event is one invocation of invoicePaid.  An        *)
(* invocation is a sequence of awaited collaborator calls; the model has   *)
(* one action per awaited call, and the synchronous code that follows the  *)
(* call up to the next await is part of the same action.  Invocations      *)
(* interleave freely at their awaits.  The collaborators (prisma, redis,   *)
(* tinybird, waitUntil) are modelled by the tables they read and write.    *)
(***************************************************************************)
EXTENDS Integers, Sequences, FiniteSets, TLC

\* ---------------------------------------------------------------- bounds
NumInvocations == 2            \* deliveries handled in one behaviour
MaxFailures == 1               \* collaborator writes that may fail in one behaviour
MaxExpirations == 1            \* dedup keys that may expire in one behaviour

Procs == 1..NumInvocations

\* ------------------------------------------------------------ the world
NULL == "null"

InvoiceIds == {"in_1", "in_2"}
StripeCustomerIds == {"cus_1", "cus_2"}
Amounts == {0, 300, 500}
LinkIds == {"link_1", "link_2"}

\* the events the dispatcher can deliver (invoice.id, invoice.customer,
\* invoice.amount_paid)
Invoices == [id : InvoiceIds, customer : StripeCustomerIds, amount_paid : Amounts]

\* the Customer row of a stripeCustomerId, when it exists
CustomerRow(s) ==
    IF s = "cus_1"
    THEN [id |-> "c_1", stripeCustomerId |-> s, projectId |-> "ws_1"]
    ELSE [id |-> "c_2", stripeCustomerId |-> s, projectId |-> "ws_2"]

CustomerIds == {CustomerRow(s).id : s \in StripeCustomerIds}
ProjectIds == {CustomerRow(s).projectId : s \in StripeCustomerIds}

\* Link.programId: link_1 is a plain link, link_2 belongs to a program
ProgramIdOf(l) == IF l = "link_2" THEN "prog_1" ELSE NULL

\* the link a customer's lead event attributes the customer to
LeadLinkOf(c) == IF c = "c_1" THEN "link_1" ELSE "link_2"

\* ProgramEnrollment.commissionAmount of the enrollment holding a link
CommissionAmount == 50

VARIABLES
    customers,      \* Customer table: the stripeCustomerIds that have a row
    leadEvents,     \* tinybird lead events: customer id -> list of events
    links,          \* Link table: existing link id -> row
    projects,       \* Project table: project id -> [id, usage, salesUsage]
    enrollments,    \* ProgramEnrollment: the link ids held by an enrollment
    redis,          \* the keys dub_sale_events:invoiceId:<id> that are set
    saleLog,        \* tinybird sale events recorded by recordSale
    earnings,       \* Earnings table
    partnerNotifs,  \* notifyPartnerSale calls handed to waitUntil
    webhooks,       \* sendWorkspaceWebhook calls handed to waitUntil
    failures,       \* collaborator writes that have failed so far
    pc,             \* per invocation: the await it is suspended at
    invoice,        \* per invocation: event.data.object
    customer,       \* per invocation: const customer
    ok,             \* per invocation: const ok, the answer of redis.set
    leadEvent,      \* per invocation: leadEvent.data[0]
    link,           \* per invocation: const link (read before step 7)
    writes,         \* per invocation: the three promises of Promise.all
    linkUpdated,    \* per invocation: the link returned by prisma.link.update
    workspace,      \* per invocation: the project returned by prisma.project.update
    earningsData,   \* per invocation: const earningsData
    result,         \* per invocation: the returned string
    tasks,          \* per invocation: the state of its two detached tasks
    expirations     \* dedup keys that have expired so far

envVars == <<customers, leadEvents, links, projects, enrollments>>
outVars == <<saleLog, earnings, partnerNotifs, webhooks, tasks>>
locVars == <<invoice, customer, ok, leadEvent, link, writes, linkUpdated, workspace,
             earningsData, result>>
vars == <<customers, leadEvents, links, projects, enrollments, redis, saleLog,
          earnings, partnerNotifs, webhooks, failures, pc, invoice, customer, ok,
          leadEvent, link, writes, linkUpdated, workspace, earningsData, result,
          tasks, expirations>>

\* values of the locals before they are assigned
NoInvoice == [id |-> NULL, customer |-> NULL, amount_paid |-> 0]
NoCustomer == [id |-> NULL, stripeCustomerId |-> NULL, projectId |-> NULL]
NoLeadEvent == [link_id |-> NULL]
NoLink == [id |-> NULL, programId |-> NULL, sales |-> 0, saleAmount |-> 0]
NoProject == [id |-> NULL, usage |-> 0, salesUsage |-> 0]
NoEarnings == [eventId |-> 0, linkId |-> NULL, customerId |-> NULL, invoiceId |-> NULL,
               partnerId |-> NULL, programId |-> NULL, amount |-> 0, earnings |-> 0]
NoWrites == [sale |-> "none", link |-> "none", project |-> "none"]
NoResult == <<>>
NoTasks == [notify |-> "none", webhook |-> "none"]

Init ==
    /\ customers = {"cus_1"}
    /\ leadEvents = [c \in CustomerIds |-> IF c = "c_1"
                                            THEN <<[link_id |-> "link_1"]>>
                                            ELSE <<>>]
    /\ links = [l \in LinkIds |->
                  [id |-> l, programId |-> ProgramIdOf(l), sales |-> 0, saleAmount |-> 0]]
    /\ projects = [w \in ProjectIds |-> [id |-> w, usage |-> 0, salesUsage |-> 0]]
    /\ enrollments \in {{}, {"link_2"}}
    /\ redis = {}
    /\ saleLog = {}
    /\ earnings = {}
    /\ partnerNotifs = {}
    /\ webhooks = {}
    /\ failures = 0
    /\ pc = [p \in Procs |-> "start"]
    /\ invoice = [p \in Procs |-> NoInvoice]
    /\ customer = [p \in Procs |-> NoCustomer]
    /\ ok = [p \in Procs |-> "unset"]
    /\ leadEvent = [p \in Procs |-> NoLeadEvent]
    /\ link = [p \in Procs |-> NoLink]
    /\ writes = [p \in Procs |-> NoWrites]
    /\ linkUpdated = [p \in Procs |-> NoLink]
    /\ workspace = [p \in Procs |-> NoProject]
    /\ earningsData = [p \in Procs |-> NoEarnings]
    /\ result = [p \in Procs |-> NoResult]
    /\ tasks = [p \in Procs |-> NoTasks]
    /\ expirations = 0

\* ------------------------------------------------------- status strings
CustomerNotFound(s) == <<"Customer with stripeCustomerId", s, "not found, skipping...">>
AlreadyProcessed(i) == <<"Invoice with ID", i, "already processed, skipping...">>
AmountZero(i) == <<"Invoice with ID", i, "has an amount of 0, skipping...">>
LeadNotFound(c) == <<"Lead event with customer ID", c, "not found, skipping...">>
LinkNotFound(l) == <<"Link with ID", l, "not found, skipping...">>
SaleRecorded(c, i) == <<"Sale recorded for customer ID", c, "and invoice ID", i>>

\* return s
Return(p, s) ==
    /\ pc' = [pc EXCEPT ![p] = "done"]
    /\ result' = [result EXCEPT ![p] = s]

\* an awaited call rejects: the exception leaves invoicePaid uncaught
Throw(p) ==
    /\ pc' = [pc EXCEPT ![p] = "error"]
    /\ result' = result

\* ------------------------------------------------------------- steps 1-6
\* mutant: the key is claimed before the customer is looked up
FindCustomer_claimFirst(p) ==
    /\ pc[p] = "start"
    /\ \E inv \in Invoices :
        /\ invoice' = [invoice EXCEPT ![p] = inv]
        /\ IF inv.customer \in customers
           THEN /\ customer' = [customer EXCEPT ![p] = CustomerRow(inv.customer)]
                /\ pc' = [pc EXCEPT ![p] = "redisSet"]
                /\ result' = result
                /\ redis' = redis
           ELSE /\ customer' = customer
                /\ redis' = redis \cup {inv.id}
                /\ Return(p, CustomerNotFound(inv.customer))
    /\ UNCHANGED <<expirations, envVars, outVars, failures, ok, leadEvent, link, writes,
                   linkUpdated, workspace, earningsData>>

\* the event is delivered; customer = await prisma.customer.findUnique(..)
FindCustomer(p) ==
    /\ pc[p] = "start"
    /\ \E inv \in Invoices :
        /\ invoice' = [invoice EXCEPT ![p] = inv]
        /\ IF inv.customer \in customers
           THEN /\ customer' = [customer EXCEPT ![p] = CustomerRow(inv.customer)]
                /\ pc' = [pc EXCEPT ![p] = "redisSet"]
                /\ result' = result
           ELSE /\ customer' = customer
                /\ Return(p, CustomerNotFound(inv.customer))
    /\ UNCHANGED <<expirations, envVars, redis, outVars, failures, ok, leadEvent, link, writes,
                   linkUpdated, workspace, earningsData>>

\* mutant: the key is set without nx, so every set is answered OK
RedisSetNx_noNx(p) ==
    /\ pc[p] = "redisSet"
    /\ LET invoiceId == invoice[p].id
       IN /\ redis' = redis \cup {invoiceId}
          /\ ok' = [ok EXCEPT ![p] = "OK"]
          /\ IF invoice[p].amount_paid = 0
             THEN Return(p, AmountZero(invoiceId))
             ELSE /\ pc' = [pc EXCEPT ![p] = "getLeadEvent"]
                  /\ result' = result
    /\ UNCHANGED <<expirations, envVars, outVars, failures, invoice, customer, leadEvent, link,
                   writes, linkUpdated, workspace, earningsData>>

\* mutant: the answer of redis.set is not looked at
RedisSetNx_ignoreOk(p) ==
    /\ pc[p] = "redisSet"
    /\ LET invoiceId == invoice[p].id
           free == invoiceId \notin redis
       IN /\ redis' = redis \cup {invoiceId}
          /\ ok' = [ok EXCEPT ![p] = IF free THEN "OK" ELSE NULL]
          /\ IF invoice[p].amount_paid = 0
             THEN Return(p, AmountZero(invoiceId))
             ELSE /\ pc' = [pc EXCEPT ![p] = "getLeadEvent"]
                  /\ result' = result
    /\ UNCHANGED <<expirations, envVars, outVars, failures, invoice, customer, leadEvent, link,
                   writes, linkUpdated, workspace, earningsData>>

\* mutant: no zero-amount guard
RedisSetNx_noZeroGuard(p) ==
    /\ pc[p] = "redisSet"
    /\ LET invoiceId == invoice[p].id
           free == invoiceId \notin redis
       IN /\ redis' = redis \cup {invoiceId}
          /\ ok' = [ok EXCEPT ![p] = IF free THEN "OK" ELSE NULL]
          /\ IF ~free
             THEN Return(p, AlreadyProcessed(invoiceId))
             ELSE /\ pc' = [pc EXCEPT ![p] = "getLeadEvent"]
                  /\ result' = result
    /\ UNCHANGED <<expirations, envVars, outVars, failures, invoice, customer, leadEvent, link,
                   writes, linkUpdated, workspace, earningsData>>

\* mutant: the zero-amount guard comes before the claim of the key
RedisSetNx_guardBeforeClaim(p) ==
    /\ pc[p] = "redisSet"
    /\ LET invoiceId == invoice[p].id
           free == invoiceId \notin redis
       IN IF invoice[p].amount_paid = 0
          THEN /\ Return(p, AmountZero(invoiceId))
               /\ UNCHANGED <<redis, ok>>
          ELSE /\ redis' = redis \cup {invoiceId}
               /\ ok' = [ok EXCEPT ![p] = IF free THEN "OK" ELSE NULL]
               /\ IF ~free
                  THEN Return(p, AlreadyProcessed(invoiceId))
                  ELSE /\ pc' = [pc EXCEPT ![p] = "getLeadEvent"]
                       /\ result' = result
    /\ UNCHANGED <<expirations, envVars, outVars, failures, invoice, customer, leadEvent, link,
                   writes, linkUpdated, workspace, earningsData>>

\* ok = await redis.set(key, 1, {ex, nx: true}); then the zero-amount guard
RedisSetNx(p) ==
    /\ pc[p] = "redisSet"
    /\ LET invoiceId == invoice[p].id
           free == invoiceId \notin redis
       IN /\ redis' = redis \cup {invoiceId}
          /\ ok' = [ok EXCEPT ![p] = IF free THEN "OK" ELSE NULL]
          /\ IF ~free
             THEN Return(p, AlreadyProcessed(invoiceId))
             ELSE IF invoice[p].amount_paid = 0
                  THEN Return(p, AmountZero(invoiceId))
                  ELSE /\ pc' = [pc EXCEPT ![p] = "getLeadEvent"]
                       /\ result' = result
    /\ UNCHANGED <<expirations, envVars, outVars, failures, invoice, customer, leadEvent, link,
                   writes, linkUpdated, workspace, earningsData>>

\* mutant: the usage of the workspace is counted before the lead is looked up
GetLeadEvent_usageFirst(p) ==
    /\ pc[p] = "getLeadEvent"
    /\ LET data == leadEvents[customer[p].id]
           projectId == customer[p].projectId
       IN /\ projects' = [projects EXCEPT ![projectId].usage = @ + 1]
          /\ IF Len(data) = 0
             THEN /\ Return(p, LeadNotFound(customer[p].id))
                  /\ leadEvent' = leadEvent
             ELSE /\ leadEvent' = [leadEvent EXCEPT ![p] = data[1]]
                  /\ pc' = [pc EXCEPT ![p] = "findLink"]
                  /\ result' = result
    /\ UNCHANGED <<expirations, customers, leadEvents, links, enrollments, redis, outVars, failures,
                   invoice, customer, ok, link, writes, linkUpdated, workspace,
                   earningsData>>

\* mutant: the key is released when the lead event is missing
GetLeadEvent_releaseKey(p) ==
    /\ pc[p] = "getLeadEvent"
    /\ LET data == leadEvents[customer[p].id]
       IN IF Len(data) = 0
          THEN /\ Return(p, LeadNotFound(customer[p].id))
               /\ redis' = redis \ {invoice[p].id}
               /\ leadEvent' = leadEvent
          ELSE /\ leadEvent' = [leadEvent EXCEPT ![p] = data[1]]
               /\ pc' = [pc EXCEPT ![p] = "findLink"]
               /\ result' = result
               /\ redis' = redis
    /\ UNCHANGED <<expirations, envVars, outVars, failures, invoice, customer, ok, link, writes,
                   linkUpdated, workspace, earningsData>>

\* leadEvent = await getLeadEvent({customerId: customer.id})
GetLeadEvent(p) ==
    /\ pc[p] = "getLeadEvent"
    /\ LET data == leadEvents[customer[p].id]
       IN IF Len(data) = 0
          THEN /\ Return(p, LeadNotFound(customer[p].id))
               /\ leadEvent' = leadEvent
          ELSE /\ leadEvent' = [leadEvent EXCEPT ![p] = data[1]]
               /\ pc' = [pc EXCEPT ![p] = "findLink"]
               /\ result' = result
    /\ UNCHANGED <<expirations, envVars, redis, outVars, failures, invoice, customer, ok, link, writes,
                   linkUpdated, workspace, earningsData>>

\* const eventId = nanoid(16): a fresh id, here the number of the invocation
EventId(p) == p

\* const saleData = {...leadEvent.data[0], event_id, amount, invoice_id, ..}
SaleData(p) ==
    [event_id |-> EventId(p),
     link_id |-> leadEvent[p].link_id,
     customer_id |-> customer[p].id,
     amount |-> invoice[p].amount_paid,
     invoice_id |-> invoice[p].id]

\* mutant: findUniqueOrThrow, a missing link is an exception
FindLink_orThrow(p) ==
    /\ pc[p] = "findLink"
    /\ LET linkId == leadEvent[p].link_id
       IN IF linkId \notin DOMAIN links
          THEN /\ Throw(p)
               /\ UNCHANGED <<link, writes>>
          ELSE /\ link' = [link EXCEPT ![p] = links[linkId]]
               /\ writes' = [writes EXCEPT ![p] =
                               [sale |-> "pending", link |-> "pending", project |-> "pending"]]
               /\ pc' = [pc EXCEPT ![p] = "promiseAll"]
               /\ result' = result
    /\ UNCHANGED <<expirations, envVars, redis, outVars, failures, invoice, customer, ok, leadEvent,
                   linkUpdated, workspace, earningsData>>

\* link = await prisma.link.findUnique({where: {id: linkId}}); when found, the
\* three calls of Promise.all are issued
FindLink(p) ==
    /\ pc[p] = "findLink"
    /\ LET linkId == leadEvent[p].link_id
       IN IF linkId \notin DOMAIN links
          THEN /\ Return(p, LinkNotFound(linkId))
               /\ UNCHANGED <<link, writes>>
          ELSE /\ link' = [link EXCEPT ![p] = links[linkId]]
               /\ writes' = [writes EXCEPT ![p] =
                               [sale |-> "pending", link |-> "pending", project |-> "pending"]]
               /\ pc' = [pc EXCEPT ![p] = "promiseAll"]
               /\ result' = result
    /\ UNCHANGED <<expirations, envVars, redis, outVars, failures, invoice, customer, ok, leadEvent,
                   linkUpdated, workspace, earningsData>>

\* --------------------------------------------------------------- step 7
\* a collaborator write may be rejected (store unavailable); the number of
\* rejections in one behaviour is bounded by MaxFailures
Rejects ==
    /\ failures < MaxFailures
    /\ failures' = failures + 1

SetWrite(p, w, st) == writes' = [writes EXCEPT ![p][w] = st]

\* recordSale(saleData): the sale event is appended to the event store
RecordSale(p) ==
    /\ writes[p].sale = "pending"
    /\ \/ /\ saleLog' = saleLog \cup {SaleData(p)}
          /\ SetWrite(p, "sale", "ok")
          /\ failures' = failures
       \/ /\ Rejects
          /\ SetWrite(p, "sale", "fail")
          /\ saleLog' = saleLog
    /\ UNCHANGED <<expirations, envVars, redis, earnings, partnerNotifs, webhooks, tasks, pc,
                   invoice,
                   customer, ok, leadEvent, link, linkUpdated, workspace, earningsData,
                   result>>

\* mutant: read-modify-write on the link read before step 7
LinkUpdate_readModifyWrite(p) ==
    /\ writes[p].link = "pending"
    /\ LET linkId == leadEvent[p].link_id
       IN \/ /\ linkId \in DOMAIN links
             /\ LET row == [links[linkId] EXCEPT
                               !.sales = link[p].sales + 1,
                               !.saleAmount = link[p].saleAmount + invoice[p].amount_paid]
                IN /\ links' = [links EXCEPT ![linkId] = row]
                   /\ linkUpdated' = [linkUpdated EXCEPT ![p] = row]
             /\ SetWrite(p, "link", "ok")
             /\ failures' = failures
          \/ /\ linkId \notin DOMAIN links
             /\ SetWrite(p, "link", "fail")
             /\ UNCHANGED <<links, linkUpdated, failures>>
          \/ /\ Rejects
             /\ SetWrite(p, "link", "fail")
             /\ UNCHANGED <<links, linkUpdated>>
    /\ UNCHANGED <<expirations, customers, leadEvents, projects, enrollments, redis, outVars, pc,
                   invoice, customer, ok, leadEvent, link, workspace, earningsData, result>>

\* mutant: the link counters are incremented for the links of a program only
LinkUpdate_programOnly(p) ==
    /\ writes[p].link = "pending"
    /\ LET linkId == leadEvent[p].link_id
       IN \/ /\ linkId \in DOMAIN links
             /\ LET row == IF links[linkId].programId # NULL
                           THEN [links[linkId] EXCEPT
                                    !.sales = @ + 1,
                                    !.saleAmount = @ + invoice[p].amount_paid]
                           ELSE links[linkId]
                IN /\ links' = [links EXCEPT ![linkId] = row]
                   /\ linkUpdated' = [linkUpdated EXCEPT ![p] = row]
             /\ SetWrite(p, "link", "ok")
             /\ failures' = failures
          \/ /\ linkId \notin DOMAIN links
             /\ SetWrite(p, "link", "fail")
             /\ UNCHANGED <<links, linkUpdated, failures>>
          \/ /\ Rejects
             /\ SetWrite(p, "link", "fail")
             /\ UNCHANGED <<links, linkUpdated>>
    /\ UNCHANGED <<expirations, customers, leadEvents, projects, enrollments, redis, outVars, pc,
                   invoice, customer, ok, leadEvent, link, workspace, earningsData, result>>

\* prisma.link.update({where: {id: linkId}, data: {sales: {increment: 1},
\* saleAmount: {increment: invoice.amount_paid}}}): an atomic increment of the
\* row as it is now, rejected when the row is gone
LinkUpdate(p) ==
    /\ writes[p].link = "pending"
    /\ LET linkId == leadEvent[p].link_id
       IN \/ /\ linkId \in DOMAIN links
             /\ LET row == [links[linkId] EXCEPT
                               !.sales = @ + 1,
                               !.saleAmount = @ + invoice[p].amount_paid]
                IN /\ links' = [links EXCEPT ![linkId] = row]
                   /\ linkUpdated' = [linkUpdated EXCEPT ![p] = row]
             /\ SetWrite(p, "link", "ok")
             /\ failures' = failures
          \/ /\ linkId \notin DOMAIN links
             /\ SetWrite(p, "link", "fail")
             /\ UNCHANGED <<links, linkUpdated, failures>>
          \/ /\ Rejects
             /\ SetWrite(p, "link", "fail")
             /\ UNCHANGED <<links, linkUpdated>>
    /\ UNCHANGED <<expirations, customers, leadEvents, projects, enrollments, redis, outVars, pc,
                   invoice, customer, ok, leadEvent, link, workspace, earningsData, result>>

\* mutant: salesUsage is incremented by 1, not by invoice.amount_paid
ProjectUpdate_salesUsageByOne(p) ==
    /\ writes[p].project = "pending"
    /\ LET projectId == customer[p].projectId
       IN \/ /\ LET row == [projects[projectId] EXCEPT
                               !.usage = @ + 1,
                               !.salesUsage = @ + 1]
                IN /\ projects' = [projects EXCEPT ![projectId] = row]
                   /\ workspace' = [workspace EXCEPT ![p] = row]
             /\ SetWrite(p, "project", "ok")
             /\ failures' = failures
          \/ /\ Rejects
             /\ SetWrite(p, "project", "fail")
             /\ UNCHANGED <<projects, workspace>>
    /\ UNCHANGED <<expirations, customers, leadEvents, links, enrollments, redis, outVars, pc,
                   invoice, customer, ok, leadEvent, link, linkUpdated, earningsData, result>>

\* prisma.project.update({where: {id: customer.projectId}, data: {usage:
\* {increment: 1}, salesUsage: {increment: invoice.amount_paid}}})
ProjectUpdate(p) ==
    /\ writes[p].project = "pending"
    /\ LET projectId == customer[p].projectId
       IN \/ /\ LET row == [projects[projectId] EXCEPT
                               !.usage = @ + 1,
                               !.salesUsage = @ + invoice[p].amount_paid]
                IN /\ projects' = [projects EXCEPT ![projectId] = row]
                   /\ workspace' = [workspace EXCEPT ![p] = row]
             /\ SetWrite(p, "project", "ok")
             /\ failures' = failures
          \/ /\ Rejects
             /\ SetWrite(p, "project", "fail")
             /\ UNCHANGED <<projects, workspace>>
    /\ UNCHANGED <<expirations, customers, leadEvents, links, enrollments, redis, outVars, pc,
                   invoice, customer, ok, leadEvent, link, linkUpdated, earningsData, result>>

\* -------------------------------------------------------------- steps 8-10
\* mutant: the webhook carries the link read before step 7
WorkspaceWebhook_staleLink(p) ==
    [trigger |-> "sale.created",
     workspace |-> workspace[p],
     sale |-> SaleData(p),
     link |-> link[p],
     customer |-> customer[p].id]

\* waitUntil(sendWorkspaceWebhook({trigger: "sale.created", workspace,
\* data: transformSaleEventData({...saleData, link: linkUpdated, customer})}))
WorkspaceWebhook(p) ==
    [trigger |-> "sale.created",
     workspace |-> workspace[p],
     sale |-> SaleData(p),
     link |-> linkUpdated[p],
     customer |-> customer[p].id]

\* mutant: the webhook is sent inside the program branch only
PromiseAll_webhookInProgramBranch(p) ==
    /\ pc[p] = "promiseAll"
    /\ LET w == writes[p]
       IN \/ /\ "fail" \in {w.sale, w.link, w.project}
             /\ Throw(p)
          \/ /\ w.sale = "ok" /\ w.link = "ok" /\ w.project = "ok"
             /\ IF link[p].programId # NULL
                THEN /\ pc' = [pc EXCEPT ![p] = "findEnrollment"]
                     /\ result' = result
                ELSE Return(p, SaleRecorded(customer[p].id, invoice[p].id))
    /\ UNCHANGED <<expirations, envVars, redis, outVars, failures, invoice, customer, ok, leadEvent,
                   link, writes, linkUpdated, workspace, earningsData>>

\* mutant: a rejected write makes the handler release the key for a retry
PromiseAll_releaseKey(p) ==
    /\ pc[p] = "promiseAll"
    /\ LET w == writes[p]
       IN \/ /\ "fail" \in {w.sale, w.link, w.project}
             /\ Throw(p)
             /\ redis' = redis \ {invoice[p].id}
             /\ webhooks' = webhooks
             /\ tasks' = tasks
          \/ /\ w.sale = "ok" /\ w.link = "ok" /\ w.project = "ok"
             /\ redis' = redis
             /\ IF link[p].programId # NULL
                THEN /\ pc' = [pc EXCEPT ![p] = "findEnrollment"]
                     /\ UNCHANGED <<result, webhooks, tasks>>
                ELSE /\ webhooks' = webhooks \cup {WorkspaceWebhook(p)}
                     /\ tasks' = [tasks EXCEPT ![p].webhook = "pending"]
                     /\ Return(p, SaleRecorded(customer[p].id, invoice[p].id))
    /\ UNCHANGED <<expirations, envVars, saleLog, earnings, partnerNotifs, failures, invoice,
                   customer, ok, leadEvent, link, writes, linkUpdated, workspace,
                   earningsData>>

\* mutant: a rejected write makes the handler take the sale event back
PromiseAll_rollback(p) ==
    /\ pc[p] = "promiseAll"
    /\ LET w == writes[p]
       IN \/ /\ "fail" \in {w.sale, w.link, w.project}
             /\ Throw(p)
             /\ saleLog' = {s \in saleLog : s.event_id # EventId(p)}
             /\ webhooks' = webhooks
             /\ tasks' = tasks
          \/ /\ w.sale = "ok" /\ w.link = "ok" /\ w.project = "ok"
             /\ saleLog' = saleLog
             /\ IF link[p].programId # NULL
                THEN /\ pc' = [pc EXCEPT ![p] = "findEnrollment"]
                     /\ UNCHANGED <<result, webhooks, tasks>>
                ELSE /\ webhooks' = webhooks \cup {WorkspaceWebhook(p)}
                     /\ tasks' = [tasks EXCEPT ![p].webhook = "pending"]
                     /\ Return(p, SaleRecorded(customer[p].id, invoice[p].id))
    /\ UNCHANGED <<expirations, envVars, redis, earnings, partnerNotifs, failures, invoice,
                   customer, ok, leadEvent, link, writes, linkUpdated, workspace,
                   earningsData>>

\* await Promise.all([..]) settles: it rejects as soon as one of the three
\* promises has rejected and resolves when all three have resolved.  For a
\* link without a program the webhook is handed to waitUntil and the handler
\* returns.
PromiseAll(p) ==
    /\ pc[p] = "promiseAll"
    /\ LET w == writes[p]
       IN \/ /\ "fail" \in {w.sale, w.link, w.project}
             /\ Throw(p)
             /\ webhooks' = webhooks
             /\ tasks' = tasks
          \/ /\ w.sale = "ok" /\ w.link = "ok" /\ w.project = "ok"
             /\ IF link[p].programId # NULL
                THEN /\ pc' = [pc EXCEPT ![p] = "findEnrollment"]
                     /\ UNCHANGED <<result, webhooks, tasks>>
                ELSE /\ webhooks' = webhooks \cup {WorkspaceWebhook(p)}
                     /\ tasks' = [tasks EXCEPT ![p].webhook = "pending"]
                     /\ Return(p, SaleRecorded(customer[p].id, invoice[p].id))
    /\ UNCHANGED <<expirations, envVars, redis, saleLog, earnings, partnerNotifs, failures, invoice,
                   customer, ok, leadEvent, link, writes, linkUpdated, workspace,
                   earningsData>>

\* prepareEarnings({linkId, customerId, program, partner, event, sale})
prepareEarnings(linkId, customerId, programId, partnerId, commissionAmount, eventId, sale) ==
    [eventId |-> eventId,
     linkId |-> linkId,
     customerId |-> customerId,
     invoiceId |-> sale.invoiceId,
     partnerId |-> partnerId,
     programId |-> programId,
     amount |-> sale.amount,
     earnings |-> commissionAmount]

\* the partner of the enrollment that holds a link
PartnerIdOf(l) == "pn_1"

\* mutant: findFirst, a missing enrollment is one more skip
FindEnrollment_skip(p) ==
    /\ pc[p] = "findEnrollment"
    /\ IF link[p].id \in enrollments
       THEN /\ earningsData' = [earningsData EXCEPT ![p] =
                prepareEarnings(link[p].id, customer[p].id, link[p].programId,
                                PartnerIdOf(link[p].id), CommissionAmount, EventId(p),
                                [amount |-> SaleData(p).amount,
                                 invoiceId |-> SaleData(p).invoice_id])]
            /\ pc' = [pc EXCEPT ![p] = "createEarnings"]
            /\ result' = result
       ELSE /\ Return(p, <<"Enrollment of link", link[p].id, "not found, skipping...">>)
            /\ earningsData' = earningsData
    /\ UNCHANGED <<expirations, envVars, redis, outVars, failures, invoice, customer, ok, leadEvent,
                   link, writes, linkUpdated, workspace>>

\* {program, ...partner} = await prisma.programEnrollment.findFirstOrThrow(..);
\* earningsData = prepareEarnings(..)
FindEnrollment(p) ==
    /\ pc[p] = "findEnrollment"
    /\ IF link[p].id \in enrollments
       THEN /\ earningsData' = [earningsData EXCEPT ![p] =
                prepareEarnings(link[p].id, customer[p].id, link[p].programId,
                                PartnerIdOf(link[p].id), CommissionAmount, EventId(p),
                                [amount |-> SaleData(p).amount,
                                 invoiceId |-> SaleData(p).invoice_id])]
            /\ pc' = [pc EXCEPT ![p] = "createEarnings"]
            /\ result' = result
       ELSE /\ Throw(p)
            /\ earningsData' = earningsData
    /\ UNCHANGED <<expirations, envVars, redis, outVars, failures, invoice, customer, ok, leadEvent,
                   link, writes, linkUpdated, workspace>>

\* mutant: the notification is given the sale amount as the earnings
PartnerSale_saleAmount(p) ==
    [partnerId |-> earningsData[p].partnerId,
     programId |-> link[p].programId,
     eventId |-> EventId(p),
     amount |-> SaleData(p).amount,
     earnings |-> SaleData(p).amount]

\* waitUntil(notifyPartnerSale({partner, program, sale: {amount, earnings}}))
PartnerSale(p) ==
    [partnerId |-> earningsData[p].partnerId,
     programId |-> link[p].programId,
     eventId |-> EventId(p),
     amount |-> earningsData[p].amount,
     earnings |-> earningsData[p].earnings]

\* await prisma.earnings.create({data: earningsData}); then both detached
\* tasks are handed to waitUntil and the handler returns
CreateEarnings(p) ==
    /\ pc[p] = "createEarnings"
    /\ \/ /\ earnings' = earnings \cup {earningsData[p]}
          /\ partnerNotifs' = partnerNotifs \cup {PartnerSale(p)}
          /\ webhooks' = webhooks \cup {WorkspaceWebhook(p)}
          /\ tasks' = [tasks EXCEPT ![p] = [notify |-> "pending", webhook |-> "pending"]]
          /\ Return(p, SaleRecorded(customer[p].id, invoice[p].id))
          /\ failures' = failures
       \/ /\ Rejects
          /\ Throw(p)
          /\ UNCHANGED <<earnings, partnerNotifs, webhooks, tasks>>
    /\ UNCHANGED <<expirations, envVars, redis, saleLog, invoice, customer, ok, leadEvent, link, writes,
                   linkUpdated, workspace, earningsData>>

\* ------------------------------------------------- the stores' other writers
\* a customer is synchronised after the provider already sends its events
CustomerCreated(s) ==
    /\ s \notin customers
    /\ customers' = customers \cup {s}
    /\ UNCHANGED <<expirations, leadEvents, links, projects, enrollments, redis, outVars, failures,
                   pc, locVars>>

\* a lead event is recorded for a customer that had none
LeadRecorded(s) ==
    /\ s \in customers
    /\ LET c == CustomerRow(s).id
       IN /\ Len(leadEvents[c]) = 0
          /\ leadEvents' = [leadEvents EXCEPT ![c] = <<[link_id |-> LeadLinkOf(c)]>>]
    /\ UNCHANGED <<expirations, customers, links, projects, enrollments, redis, outVars, failures,
                   pc, locVars>>

\* a link is deleted after the attribution
LinkDeleted(l) ==
    /\ l \in DOMAIN links
    /\ links' = [k \in DOMAIN links \ {l} |-> links[k]]
    /\ UNCHANGED <<expirations, customers, leadEvents, projects, enrollments, redis, outVars,
                   failures, pc, locVars>>

\* the key of an invoice id expires (ex: 60 * 60 * 24 * 7)
Expire(i) ==
    /\ i \in redis
    /\ expirations < MaxExpirations
    /\ redis' = redis \ {i}
    /\ expirations' = expirations + 1
    /\ UNCHANGED <<envVars, outVars, failures, pc, locVars>>

\* mutant: the task is awaited, so its failure leaves the handler as an
\* exception instead of the success message
TaskSettles_awaited(p, t) ==
    /\ tasks[p][t] = "pending"
    /\ \E outcome \in {"ok", "failed"} :
          /\ tasks' = [tasks EXCEPT ![p][t] = outcome]
          /\ pc' = [pc EXCEPT ![p] = IF outcome = "failed" THEN "error" ELSE @]
          /\ result' = [result EXCEPT ![p] = IF outcome = "failed" THEN NoResult ELSE @]
    /\ UNCHANGED <<expirations, envVars, redis, saleLog, earnings, partnerNotifs,
                   webhooks, failures, invoice, customer, ok, leadEvent, link,
                   writes, linkUpdated, workspace, earningsData>>

\* a task handed to waitUntil runs to its end, after the handler has
\* returned, and succeeds or fails; nothing of the handler awaits it
TaskSettles(p, t) ==
    /\ tasks[p][t] = "pending"
    /\ \E outcome \in {"ok", "failed"} :
          tasks' = [tasks EXCEPT ![p][t] = outcome]
    /\ UNCHANGED <<expirations, envVars, redis, saleLog, earnings, partnerNotifs,
                   webhooks, failures, pc, locVars>>

Step(p) ==
    \/ FindCustomer(p)
    \/ RedisSetNx(p)
    \/ GetLeadEvent(p)
    \/ FindLink(p)
    \/ RecordSale(p)
    \/ LinkUpdate(p)
    \/ ProjectUpdate(p)
    \/ PromiseAll(p)
    \/ FindEnrollment(p)
    \/ CreateEarnings(p)

Next ==
    \/ \E p \in Procs : Step(p)
    \/ \E s \in StripeCustomerIds : CustomerCreated(s)
    \/ \E s \in StripeCustomerIds : LeadRecorded(s)
    \/ \E l \in LinkIds : LinkDeleted(l)

Spec == Init /\ [][Next]_vars

\* the handler with the expiry of the dedup keys
NextExpiry ==
    \/ Next
    \/ \E i \in InvoiceIds : Expire(i)

SpecExpiry == Init /\ [][NextExpiry]_vars

\* the handler with the detached tasks running to their end
NextTasks ==
    \/ Next
    \/ \E p \in Procs : \E t \in {"notify", "webhook"} : TaskSettles(p, t)

SpecTasks == Init /\ [][NextTasks]_vars

\* ------------------------------------------------- what an invocation did
Returned(p) == pc[p] \in {"done", "error"}

SalesOf(p) == {s \in saleLog : s.event_id = EventId(p)}
EarningsOf(p) == {e \in earnings : e.eventId = EventId(p)}
PartnerNotifsOf(p) == {n \in partnerNotifs : n.eventId = EventId(p)}
WebhooksOf(p) == {w \in webhooks : w.sale.event_id = EventId(p)}

RECURSIVE SumAmount(_)
SumAmount(S) ==
    IF S = {} THEN 0
    ELSE LET p == CHOOSE x \in S : TRUE
         IN invoice[p].amount_paid + SumAmount(S \ {p})

\* the invocations whose counter update of a link, of a project, was applied
LinkWriters(l) == {p \in Procs : writes[p].link = "ok" /\ leadEvent[p].link_id = l}
ProjectWriters(w) == {p \in Procs : writes[p].project = "ok" /\ customer[p].projectId = w}

\* every counter is the sum of the increments of the updates that were applied
CountersAccounted ==
    /\ \A l \in DOMAIN links :
          /\ links[l].sales = Cardinality(LinkWriters(l))
          /\ links[l].saleAmount = SumAmount(LinkWriters(l))
    /\ \A w \in ProjectIds :
          /\ projects[w].usage = Cardinality(ProjectWriters(w))
          /\ projects[w].salesUsage = SumAmount(ProjectWriters(w))

\* none of the three writes of step 7 was issued by p
NoStep7(p) ==
    /\ SalesOf(p) = {}
    /\ writes[p] = NoWrites
    /\ linkUpdated[p] = NoLink
    /\ workspace[p] = NoProject

\* none of the effects of steps 7-9 comes from p
NoEffects(p) ==
    /\ NoStep7(p)
    /\ EarningsOf(p) = {}
    /\ PartnerNotifsOf(p) = {}
    /\ WebhooksOf(p) = {}

\* ------------------------------------------------------------------ claims
\* C1: while the dedup key is retained, at most one sale event is recorded per
\* invoice id whatever the later payloads are, and once one delivery of an
\* invoice id has claimed the key every other delivery of that id that reaches
\* the claim returns "already processed" and issues none of the step-7 writes.
C1_AtMostOneSalePerInvoice ==
    /\ \A i \in InvoiceIds : Cardinality({s \in saleLog : s.invoice_id = i}) <= 1
    /\ \A p, q \in Procs :
          (p # q /\ invoice[p].id = invoice[q].id /\ ok[p] = "OK" /\ ok[q] # "unset")
          => /\ pc[q] = "done"
             /\ result[q] = AlreadyProcessed(invoice[q].id)
             /\ NoStep7(q)
             /\ CountersAccounted

\* a sale was recorded for in_1 and a later delivery of in_1, with another
\* amount, was skipped
C1_Witness ==
    \E p, q \in Procs :
        /\ result[p] = SaleRecorded("c_1", "in_1")
        /\ Cardinality(SalesOf(p)) = 1
        /\ result[q] = AlreadyProcessed("in_1")
        /\ invoice[q].amount_paid # invoice[p].amount_paid
        /\ invoice[q].amount_paid > 0

\* C2: of the invocations of one invoice id, under any interleaving, at most
\* one is answered OK by redis.set; only that one goes on to the zero-amount
\* guard, the lead lookup and the writes; every other one returns the
\* "already processed" message.
C2_OneClaimant ==
    /\ \A i \in InvoiceIds :
          Cardinality({p \in Procs : invoice[p].id = i /\ ok[p] = "OK"}) <= 1
    /\ \A p \in Procs :
          /\ ok[p] = NULL =>
                /\ pc[p] = "done"
                /\ result[p] = AlreadyProcessed(invoice[p].id)
                /\ leadEvent[p] = NoLeadEvent
                /\ link[p] = NoLink
                /\ NoEffects(p)
          /\ (\/ pc[p] \in {"getLeadEvent", "findLink", "promiseAll", "findEnrollment",
                            "createEarnings"}
              \/ leadEvent[p] # NoLeadEvent
              \/ writes[p] # NoWrites
              \/ (pc[p] = "done" /\ result[p] \in {AmountZero(invoice[p].id),
                                                    LeadNotFound(customer[p].id)}))
             => ok[p] = "OK"

\* one invocation of in_1 is skipped while the other one, which claimed the
\* key, is still in its step 7
C2_Witness ==
    \E p, q \in Procs :
        /\ invoice[p].id = "in_1" /\ invoice[q].id = "in_1"
        /\ pc[p] = "promiseAll" /\ ok[p] = "OK"
        /\ pc[q] = "done" /\ ok[q] = NULL

\* C3: every recorded sale event comes from an invocation whose customer
\* lookup found the customer, whose invoice has amount_paid > 0 and whose
\* lead lookup returned a lead event of that customer.
C3_SaleOnlyIfEligible ==
    \A s \in saleLog :
        LET p == s.event_id
        IN /\ p \in Procs
           /\ customer[p] = CustomerRow(invoice[p].customer)
           /\ invoice[p].customer \in customers
           /\ invoice[p].amount_paid > 0
           /\ s.amount = invoice[p].amount_paid
           /\ s.invoice_id = invoice[p].id
           /\ s.customer_id = customer[p].id
           /\ leadEvent[p] # NoLeadEvent
           /\ Len(leadEvents[customer[p].id]) > 0
           /\ leadEvent[p] = leadEvents[customer[p].id][1]
           /\ s.link_id = leadEvent[p].link_id

C3_Witness ==
    \E s \in saleLog : s.customer_id = "c_2" /\ s.amount = 300

\* C4 as stated: an invocation with amount_paid = 0 records no sale, increments
\* no counter, creates no earnings, and has the dedup key of its invoice id set
\* when it has returned.
C4_Original ==
    \A p \in Procs :
        (Returned(p) /\ invoice[p] # NoInvoice /\ invoice[p].amount_paid = 0)
        => /\ NoEffects(p)
           /\ CountersAccounted
           /\ invoice[p].id \in redis

\* C4 amended: the same, the dedup key being set when the customer lookup of
\* the invocation found a customer.
C4_ZeroAmount ==
    \A p \in Procs :
        (Returned(p) /\ invoice[p] # NoInvoice /\ invoice[p].amount_paid = 0)
        => /\ NoEffects(p)
           /\ CountersAccounted
           /\ pc[p] = "done"
           /\ customer[p] # NoCustomer => invoice[p].id \in redis

C4_Witness ==
    \E p \in Procs :
        /\ result[p] = AmountZero(invoice[p].id)
        /\ ok[p] = "OK"
        /\ invoice[p].amount_paid = 0
        /\ invoice[p].id \in redis

\* C5: an invocation whose lead lookup finds no lead event of the customer
\* changes nothing but the dedup key: no sale event, no counter, no earnings
\* record, no notification and no webhook comes from it.
C5_NoLeadNoMutation ==
    \A p \in Procs :
        (/\ ok[p] = "OK" /\ invoice[p].amount_paid > 0
         /\ pc[p] \notin {"start", "redisSet", "getLeadEvent"}
         /\ leadEvent[p] = NoLeadEvent)
        => /\ NoEffects(p)
           /\ CountersAccounted
           /\ link[p] = NoLink
           /\ invoice[p].id \in redis
           /\ pc[p] = "done"

C5_Witness ==
    \E p \in Procs :
        /\ result[p] = LeadNotFound("c_2")
        /\ invoice[p].id \in redis
        /\ invoice[p].amount_paid = 500

\* C6 as stated: an invocation that reached step 7 with a link of a program,
\* and whose three writes of step 7 succeeded, has, once it is over, exactly
\* one earnings record, and the partner notification carries the amount and
\* the earnings of that record.
C6_Original ==
    \A p \in Procs :
        (/\ Returned(p) /\ link[p].programId # NULL
         /\ writes[p].sale = "ok" /\ writes[p].link = "ok" /\ writes[p].project = "ok")
        => /\ Cardinality(EarningsOf(p)) = 1
           /\ \A e \in EarningsOf(p) :
                 PartnerNotifsOf(p) =
                    {[partnerId |-> e.partnerId, programId |-> e.programId,
                      eventId |-> e.eventId, amount |-> e.amount, earnings |-> e.earnings]}

\* C6 amended: an invocation that reached step 7 with a link of a program and
\* returned the success message has exactly one earnings record, the one of
\* its sale, and exactly one partner notification, whose amount and earnings
\* are those of the record; no earnings record comes from an invocation that
\* did not return the success message.
C6_OneEarningsPerProcessedSale ==
    /\ \A p \in Procs :
          (pc[p] = "done" /\ writes[p] # NoWrites /\ link[p].programId # NULL)
          => /\ result[p] = SaleRecorded(customer[p].id, invoice[p].id)
             /\ Cardinality(EarningsOf(p)) = 1
             /\ Cardinality(PartnerNotifsOf(p)) = 1
             /\ \A e \in EarningsOf(p) :
                   /\ e.amount = invoice[p].amount_paid
                   /\ e.invoiceId = invoice[p].id
                   /\ e.linkId = link[p].id
                   /\ e.customerId = customer[p].id
                   /\ \A n \in PartnerNotifsOf(p) :
                         n.amount = e.amount /\ n.earnings = e.earnings
    /\ \A e \in earnings :
          /\ pc[e.eventId] = "done"
          /\ result[e.eventId] = SaleRecorded(e.customerId, e.invoiceId)
    /\ \A i \in InvoiceIds : Cardinality({e \in earnings : e.invoiceId = i}) <= 1

C6_Witness ==
    \E p \in Procs :
        /\ pc[p] = "done"
        /\ link[p].programId = "prog_1"
        /\ invoice[p].amount_paid = 500
        /\ Cardinality(EarningsOf(p)) = 1
        /\ Cardinality(PartnerNotifsOf(p)) = 1

\* C7: an earnings record, and a partner notification, comes only from an
\* invocation whose link has a program id; an invocation whose link has none
\* and whose three step-7 writes succeeded has, once it has returned, no
\* earnings record and no partner notification, and its "sale.created"
\* workspace webhook is dispatched.
C7_EarningsOnlyForProgramLinks ==
    /\ \A e \in earnings :
          /\ link[e.eventId].programId # NULL
          /\ e.linkId = link[e.eventId].id
          /\ e.programId = link[e.eventId].programId
    /\ \A n \in partnerNotifs : link[n.eventId].programId # NULL
    /\ \A p \in Procs :
          (/\ Returned(p) /\ link[p] # NoLink /\ link[p].programId = NULL
           /\ writes[p].sale = "ok" /\ writes[p].link = "ok" /\ writes[p].project = "ok")
          => /\ EarningsOf(p) = {}
             /\ PartnerNotifsOf(p) = {}
             /\ Cardinality(WebhooksOf(p)) = 1
             /\ \A w \in WebhooksOf(p) : w.trigger = "sale.created"

\* a plain link's sale has its webhook and no earnings, while a program
\* link's sale has its earnings record
C7_Witness ==
    \E p, q \in Procs :
        /\ pc[p] = "done" /\ link[p].id = "link_1" /\ writes[p].sale = "ok"
        /\ WebhooksOf(p) # {} /\ EarningsOf(p) = {}
        /\ pc[q] = "done" /\ link[q].id = "link_2" /\ EarningsOf(q) # {}

\* C8 as stated: once the writes of an invocation that created a sale event
\* have settled, the link counters and the workspace counters were incremented
\* by it.
C8_Original ==
    \A p \in Procs :
        (SalesOf(p) # {} /\ writes[p].link # "pending" /\ writes[p].project # "pending")
        => writes[p].link = "ok" /\ writes[p].project = "ok"

\* C8 amended: the two counter updates are issued together with the sale event
\* for every link, with or without a program; each is applied unless the store
\* rejects it, an invocation gets past step 7 only with both applied, and the
\* counters are exactly the sums of the applied updates.
C8_CountersWithSale ==
    /\ \A p \in Procs :
          /\ SalesOf(p) # {} =>
                /\ writes[p].link \in {"pending", "ok", "fail"}
                /\ writes[p].project \in {"pending", "ok", "fail"}
                /\ writes[p].link = "fail" =>
                      (failures > 0 \/ leadEvent[p].link_id \notin DOMAIN links)
                /\ writes[p].project = "fail" => failures > 0
          /\ (pc[p] \in {"findEnrollment", "createEarnings"}
              \/ (pc[p] = "done" /\ writes[p] # NoWrites))
             => /\ writes[p].link = "ok" /\ writes[p].project = "ok"
                /\ SalesOf(p) # {}
                /\ linkUpdated[p].sales >= link[p].sales + 1
                /\ linkUpdated[p].saleAmount >= link[p].saleAmount + invoice[p].amount_paid
                /\ workspace[p].usage >= 1
                /\ workspace[p].salesUsage >= invoice[p].amount_paid
    /\ CountersAccounted

\* sales on a plain link and on a program link, each with its counters
C8_Witness ==
    \E p, q \in Procs :
        /\ SalesOf(p) # {} /\ link[p].programId = NULL
        /\ writes[p].link = "ok" /\ writes[p].project = "ok"
        /\ SalesOf(q) # {} /\ link[q].programId # NULL
        /\ writes[q].link = "ok" /\ writes[q].project = "ok"
        /\ "link_2" \in DOMAIN links /\ links["link_2"].sales = 1
        /\ "link_1" \in DOMAIN links /\ links["link_1"].sales = 1

\* C9: an invocation that claimed the key, with amount_paid = a > 0, a
\* customer, a lead event and a link without a program, and none of whose
\* collaborator calls was rejected, ends with the success message naming the
\* customer id and the invoice id; it appended exactly one sale event, of
\* amount a, created no earnings record and dispatched one "sale.created"
\* webhook; the link's sales and the workspace's usage grew by exactly 1 and
\* saleAmount and salesUsage by exactly a (beyond the increments of the other
\* invocations).
C9_PlainLinkSale ==
    \A p \in Procs :
        (/\ Returned(p) /\ ok[p] = "OK" /\ invoice[p].amount_paid > 0
         /\ leadEvent[p] # NoLeadEvent /\ link[p] # NoLink /\ link[p].programId = NULL
         /\ writes[p].sale # "fail" /\ writes[p].link # "fail" /\ writes[p].project # "fail")
        => LET a == invoice[p].amount_paid
               l == link[p].id
               w == customer[p].projectId
               otherL == LinkWriters(l) \ {p}
               otherW == ProjectWriters(w) \ {p}
           IN /\ pc[p] = "done"
              /\ result[p] = SaleRecorded(customer[p].id, invoice[p].id)
              /\ SalesOf(p) = {SaleData(p)}
              /\ SaleData(p).amount = a
              /\ {s \in saleLog : s.invoice_id = invoice[p].id} = {SaleData(p)}
              /\ EarningsOf(p) = {}
              /\ Cardinality(WebhooksOf(p)) = 1
              /\ \A h \in WebhooksOf(p) : h.trigger = "sale.created"
              /\ l \in DOMAIN links =>
                    /\ links[l].sales = 1 + Cardinality(otherL)
                    /\ links[l].saleAmount = a + SumAmount(otherL)
              /\ projects[w].usage = 1 + Cardinality(otherW)
              /\ projects[w].salesUsage = a + SumAmount(otherW)
              /\ (otherL = {} /\ otherW = {}) =>
                    /\ linkUpdated[p].sales = 1 /\ linkUpdated[p].saleAmount = a
                    /\ workspace[p].usage = 1 /\ workspace[p].salesUsage = a

\* the scenario of the specification: cus_1, in_1, amount 500, link_1
C9_Witness ==
    \E p \in Procs :
        /\ invoice[p] = [id |-> "in_1", customer |-> "cus_1", amount_paid |-> 500]
        /\ result[p] = SaleRecorded("c_1", "in_1")
        /\ "link_1" \in DOMAIN links
        /\ links["link_1"].sales = 1 /\ links["link_1"].saleAmount = 500
        /\ projects["ws_1"].usage = 1 /\ projects["ws_1"].salesUsage = 500
        /\ Cardinality(saleLog) = 1 /\ earnings = {} /\ Cardinality(webhooks) = 1

\* C10: in each of the five skip conditions the invocation returns the status
\* string of that condition, it does not throw, and no sale event, counter
\* increment, earnings record, partner notification or webhook comes from it.
C10_SkipsReturnStatus ==
    \A p \in Procs :
        LET skipped ==
              \* customer not found
              \/ (pc[p] # "start" /\ customer[p] = NoCustomer)
              \* invoice id already claimed
              \/ ok[p] = NULL
              \* amount paid zero
              \/ (ok[p] = "OK" /\ invoice[p].amount_paid = 0)
              \* lead event missing
              \/ (/\ ok[p] = "OK" /\ invoice[p].amount_paid > 0
                  /\ pc[p] \notin {"redisSet", "getLeadEvent"}
                  /\ leadEvent[p] = NoLeadEvent)
              \* link missing
              \/ (/\ leadEvent[p] # NoLeadEvent /\ pc[p] # "findLink"
                  /\ link[p] = NoLink)
            status ==
              IF customer[p] = NoCustomer THEN CustomerNotFound(invoice[p].customer)
              ELSE IF ok[p] = NULL THEN AlreadyProcessed(invoice[p].id)
              ELSE IF invoice[p].amount_paid = 0 THEN AmountZero(invoice[p].id)
              ELSE IF leadEvent[p] = NoLeadEvent THEN LeadNotFound(customer[p].id)
              ELSE LinkNotFound(leadEvent[p].link_id)
        IN /\ skipped =>
                /\ pc[p] = "done"
                /\ result[p] = status
                /\ NoEffects(p)
                /\ CountersAccounted
           /\ (pc[p] = "done" /\ result[p] # SaleRecorded(customer[p].id, invoice[p].id))
                => skipped

\* a deleted link and a customer without a lead event, both skipped
C10_Witness ==
    \E p, q \in Procs :
        /\ result[p] = LinkNotFound("link_1")
        /\ result[q] = LeadNotFound("c_2")

\* C11: an invocation whose link has a program id and is held by no
\* enrollment, once its three writes have succeeded and the enrollment lookup
\* has answered, has thrown: it has no status string, no earnings record, no
\* partner notification and no webhook, while its sale event and its two
\* counter increments are applied and stay so.
C11_MissingEnrollmentThrows ==
    \A p \in Procs :
        (/\ link[p].programId # NULL /\ link[p].id \notin enrollments
         /\ writes[p].sale = "ok" /\ writes[p].link = "ok" /\ writes[p].project = "ok"
         /\ pc[p] \notin {"promiseAll", "findEnrollment"})
        => /\ pc[p] = "error"
           /\ result[p] = NoResult
           /\ EarningsOf(p) = {}
           /\ PartnerNotifsOf(p) = {}
           /\ WebhooksOf(p) = {}
           /\ SalesOf(p) = {SaleData(p)}
           /\ p \in ProjectWriters(customer[p].projectId)
           /\ p \in LinkWriters(link[p].id)
           /\ CountersAccounted

C11_Witness ==
    \E p \in Procs :
        /\ pc[p] = "error"
        /\ link[p].programId = "prog_1" /\ enrollments = {}
        /\ writes[p].sale = "ok" /\ writes[p].link = "ok" /\ writes[p].project = "ok"
        /\ failures = 0
        /\ "link_2" \in DOMAIN links /\ links["link_2"].sales = 1
        /\ projects["ws_2"].usage = 1
        /\ Cardinality(saleLog) = 1

\* C13: when an invocation has claimed the key of an invoice id and then
\* skipped (amount zero, lead event missing or link missing), the key stays
\* set, every other delivery of that id that reaches the claim returns
\* "already processed" with no effect, and no sale event of that invoice id
\* exists, whatever the later payload and the later lead events are.
C13_SkipConsumesKey ==
    \A p \in Procs :
        (/\ ok[p] = "OK" /\ pc[p] = "done"
         /\ result[p] \in {AmountZero(invoice[p].id), LeadNotFound(customer[p].id),
                           LinkNotFound(leadEvent[p].link_id)})
        => /\ invoice[p].id \in redis
           /\ {s \in saleLog : s.invoice_id = invoice[p].id} = {}
           /\ \A q \in Procs \ {p} :
                 (invoice[q].id = invoice[p].id /\ ok[q] # "unset")
                 => /\ ok[q] = NULL
                    /\ pc[q] = "done"
                    /\ result[q] = AlreadyProcessed(invoice[q].id)
                    /\ NoEffects(q)

\* the first delivery found no lead event; the second one, of the same
\* invoice with a lead event, a link and an amount, is skipped as processed
C13_Witness ==
    \E p, q \in Procs :
        /\ result[p] = LeadNotFound("c_2")
        /\ invoice[q].id = invoice[p].id /\ invoice[q].customer = "cus_2"
        /\ invoice[q].amount_paid > 0
        /\ Len(leadEvents["c_2"]) > 0
        /\ "link_2" \in DOMAIN links
        /\ result[q] = AlreadyProcessed(invoice[q].id)

\* C14: the three writes of step 7 are independent: an invocation one of
\* whose writes was rejected ends in an error with no status string, earnings
\* record, notification or webhook, and whatever write was applied stays
\* applied (the sale event stays in the log, the counters stay the sums of
\* the applied increments), so that the sale event can exist without a
\* counter increment and a counter increment without the sale event.
C14_NoTransactionNoRollback ==
    /\ \A p \in Procs :
          /\ ("fail" \in {writes[p].sale, writes[p].link, writes[p].project}
              /\ pc[p] # "promiseAll")
             => /\ pc[p] = "error"
                /\ result[p] = NoResult
                /\ EarningsOf(p) = {}
                /\ PartnerNotifsOf(p) = {}
                /\ WebhooksOf(p) = {}
          /\ writes[p].sale = "ok" => SalesOf(p) = {SaleData(p)}
          /\ writes[p].sale \in {"none", "pending", "fail"} => SalesOf(p) = {}
          /\ writes[p].link = "ok" =>
                (link[p].id \in DOMAIN links => links[link[p].id].sales >= 1)
          /\ writes[p].project = "ok" => projects[customer[p].projectId].usage >= 1
    /\ CountersAccounted

\* the sale event is persisted, the link update was rejected, the invocation
\* has thrown and the link counters are not incremented
C14_Witness ==
    \E p \in Procs :
        /\ pc[p] = "error"
        /\ writes[p] = [sale |-> "ok", link |-> "fail", project |-> "ok"]
        /\ SalesOf(p) # {}
        /\ link[p].id \in DOMAIN links
        /\ links[link[p].id].sales = 0
        /\ projects[customer[p].projectId].usage = 1

\* C16: when an invocation has claimed the key of an invoice id and ended in
\* an error, the key stays set, every other delivery of that id that reaches
\* the claim is skipped as "already processed" with no effect, and whatever
\* the failed invocation did not complete is not produced by another one:
\* every sale event of the invoice id is its own, and the invoice id has no
\* earnings record, partner notification or webhook.
C16_ErrorKeepsKey ==
    \A p \in Procs :
        (ok[p] = "OK" /\ pc[p] = "error")
        => LET i == invoice[p].id
           IN /\ i \in redis
              /\ {s \in saleLog : s.invoice_id = i} \subseteq SalesOf(p)
              /\ {e \in earnings : e.invoiceId = i} = {}
              /\ {w \in webhooks : w.sale.invoice_id = i} = {}
              /\ EarningsOf(p) = {} /\ PartnerNotifsOf(p) = {} /\ WebhooksOf(p) = {}
              /\ \A q \in Procs \ {p} :
                    (invoice[q].id = i /\ ok[q] # "unset")
                    => /\ ok[q] = NULL
                       /\ pc[q] = "done"
                       /\ result[q] = AlreadyProcessed(i)
                       /\ NoEffects(q)

\* the first delivery lost its sale event to a rejected write and threw; the
\* redelivery is skipped and the sale event is never recorded
C16_Witness ==
    \E p, q \in Procs :
        /\ pc[p] = "error" /\ ok[p] = "OK"
        /\ writes[p] = [sale |-> "fail", link |-> "ok", project |-> "ok"]
        /\ invoice[q] = invoice[p]
        /\ result[q] = AlreadyProcessed(invoice[q].id)
        /\ saleLog = {}

\* C17: an invocation whose customer lookup finds no customer returns before
\* redis.set: it has no answer from redis and sets no key, so a set key is
\* always the key of an invocation that found its customer and claimed it; a
\* later delivery of the same invoice id can then claim the key and record
\* the sale.
C17_UnknownCustomerLeavesKey ==
    /\ \A p \in Procs :
          (pc[p] # "start" /\ customer[p] = NoCustomer)
          => /\ pc[p] = "done"
             /\ result[p] = CustomerNotFound(invoice[p].customer)
             /\ ok[p] = "unset"
             /\ NoEffects(p)
    /\ \A i \in redis :
          \E q \in Procs :
              /\ invoice[q].id = i /\ ok[q] = "OK"
              /\ customer[q] = CustomerRow(invoice[q].customer)

\* cus_2 was unknown at the first delivery of in_1; the second delivery of
\* in_1, after cus_2 was created, records the sale
C17_Witness ==
    \E p, q \in Procs :
        /\ result[p] = CustomerNotFound("cus_2")
        /\ invoice[p].id = "in_1"
        /\ invoice[q] = invoice[p]
        /\ ok[q] = "OK"
        /\ result[q] = SaleRecorded("c_2", "in_1")
        /\ Cardinality({s \in saleLog : s.invoice_id = "in_1"}) = 1

RECURSIVE SumSales(_)
SumSales(S) ==
    IF S = {} THEN 0
    ELSE LET s == CHOOSE x \in S : TRUE
         IN s.amount + SumSales(S \ {s})

\* the sale events attributed to a link, to the project of their customer
SalesOfLink(l) == {s \in saleLog : s.link_id = l}
SalesOfProject(w) ==
    {s \in saleLog : \E c \in StripeCustomerIds :
        CustomerRow(c).id = s.customer_id /\ CustomerRow(c).projectId = w}

\* C18: a partner notification or a webhook of an invocation exists only when
\* its three step-7 writes have succeeded (its sale event is in the log, its
\* increments are applied); for a link of a program both exist only when the
\* earnings record is persisted; and the webhook carries the link returned by
\* link.update, whose counters are past those of the link read before step 7.
C18_EffectsOrdered ==
    /\ \A h \in webhooks :
          LET p == h.sale.event_id
          IN /\ writes[p].sale = "ok" /\ writes[p].link = "ok" /\ writes[p].project = "ok"
             /\ h.sale \in saleLog
             /\ link[p].programId # NULL => EarningsOf(p) = {earningsData[p]}
             /\ h.link = linkUpdated[p]
             /\ h.link.id = link[p].id
             /\ h.link.sales >= link[p].sales + 1
             /\ h.link.saleAmount >= link[p].saleAmount + invoice[p].amount_paid
             /\ h.workspace = workspace[p]
             /\ h.workspace.usage >= 1
    /\ \A n \in partnerNotifs :
          LET p == n.eventId
          IN /\ writes[p].sale = "ok" /\ writes[p].link = "ok" /\ writes[p].project = "ok"
             /\ SaleData(p) \in saleLog
             /\ EarningsOf(p) = {earningsData[p]}
             /\ link[p].programId # NULL
    /\ \A p \in Procs :
          pc[p] \in {"promiseAll", "findEnrollment", "createEarnings"}
          => PartnerNotifsOf(p) = {} /\ WebhooksOf(p) = {}

\* the webhook of a program link's sale, with the link as updated: two sales
\* where the link read before step 7 had none
C18_Witness ==
    \E h \in webhooks :
        /\ link[h.sale.event_id].programId = "prog_1"
        /\ link[h.sale.event_id].sales = 0
        /\ h.link.sales = 2
        /\ EarningsOf(h.sale.event_id) # {}

\* C19: with no rejected write and every invocation over, each link's sales
\* is the number of the sale events recorded for the link and its saleAmount
\* the sum of their amounts, and each workspace's usage and salesUsage are the
\* number and the sum of the sale events of its customers: no increment of
\* concurrent invocations is lost.
C19_NoLostIncrement ==
    (/\ failures = 0
     /\ \A p \in Procs :
           /\ pc[p] \in {"done", "error"}
           /\ "fail" \notin {writes[p].sale, writes[p].link, writes[p].project})
    => /\ \A l \in DOMAIN links :
             /\ links[l].sales = Cardinality(SalesOfLink(l))
             /\ links[l].saleAmount = SumSales(SalesOfLink(l))
       /\ \A w \in ProjectIds :
             /\ projects[w].usage = Cardinality(SalesOfProject(w))
             /\ projects[w].salesUsage = SumSales(SalesOfProject(w))

\* two invoices of one customer handled at the same time: the first
\* invocation's link update came second and its project update came first
C19_Witness ==
    \E p, q \in Procs :
        /\ pc[p] = "done" /\ pc[q] = "done" /\ failures = 0
        /\ invoice[p].id # invoice[q].id
        /\ invoice[p].amount_paid = 300 /\ invoice[q].amount_paid = 500
        /\ link[p].id = "link_1" /\ link[q].id = "link_1"
        /\ linkUpdated[p].sales = 2 /\ workspace[p].usage = 1
        /\ "link_1" \in DOMAIN links
        /\ links["link_1"].sales = 2 /\ links["link_1"].saleAmount = 800
        /\ projects["ws_1"].usage = 2 /\ projects["ws_1"].salesUsage = 800

\* the invocations that claimed the key of an invoice id, the sale events
\* recorded for it
ClaimantsOf(i) == {p \in Procs : ok[p] = "OK" /\ invoice[p].id = i}
SalesOfInvoice(i) == {s \in saleLog : s.invoice_id = i}

\* the step-7 writes of an invocation have all succeeded and, for a link of a
\* program, its earnings record is created
Completed(p) ==
    /\ writes[p].sale = "ok" /\ writes[p].link = "ok" /\ writes[p].project = "ok"
    /\ pc[p] # "promiseAll"
    /\ link[p].programId # NULL => EarningsOf(p) # {}

\* C12: an invocation that completed its step-7 writes (and, for a link of a
\* program, the earnings creation) has returned the success message, and that
\* is so in every state of its detached tasks (still running, succeeded or
\* failed); a detached task exists only for such an invocation, the webhook
\* for each and the partner notification for a link of a program.
C12_DetachedTasksNeverSurface ==
    \A p \in Procs :
        /\ Completed(p) =>
              /\ pc[p] = "done"
              /\ result[p] = SaleRecorded(customer[p].id, invoice[p].id)
              /\ tasks[p].webhook \in {"pending", "ok", "failed"}
              /\ tasks[p].notify \in
                    (IF link[p].programId # NULL
                     THEN {"pending", "ok", "failed"} ELSE {"none"})
        /\ tasks[p] # NoTasks => Completed(p)

\* the handler has returned the success message for a sale of a program link
\* while the partner notification has failed and the webhook is still running
C12_Witness ==
    \E p \in Procs :
        /\ pc[p] = "done"
        /\ result[p] = SaleRecorded(customer[p].id, invoice[p].id)
        /\ link[p].programId = "prog_1"
        /\ tasks[p].notify = "failed"
        /\ tasks[p].webhook = "pending"

\* C15: an invoice id is claimed by at most one invocation more than keys
\* have expired, and has at most one sale event for each invocation that
\* claimed it: a second claim and a second sale event for an invoice id happen
\* only after its key expired, and with an expired key they do happen.
C15_OnceWhileKeyRetained ==
    \A i \in InvoiceIds :
        /\ Cardinality(ClaimantsOf(i)) <= 1 + expirations
        /\ Cardinality(SalesOfInvoice(i)) <= Cardinality(ClaimantsOf(i))

\* the key of in_1 expired between two deliveries: both claimed it, the log
\* has two sale events for in_1 and the counters were incremented twice
C15_Witness ==
    /\ expirations = 1
    /\ Cardinality(ClaimantsOf("in_1")) = 2
    /\ Cardinality(SalesOfInvoice("in_1")) = 2
    /\ \A p \in Procs : pc[p] = "done"
    /\ "link_1" \in DOMAIN links
    /\ links["link_1"].sales = 2
    /\ projects["ws_1"].usage = 2

====
